---------------------------- MODULE Spec2Model ----------------------------
(***************************************************************************)
(* A model of the QPROF dashboard (src/app.py): one Streamlit script that  *)
(* is re-executed top to bottom on every user interaction.                 *)
(*                                                                         *)
(*   Spec     the script runs: engine cache, "Atualizar agora" button,     *)
(*            the fail-safe fetch wrappers, SQL construction, rendering.   *)
(*   SpecDb   what the database returns for the concentration query and    *)
(*            for the "VOP por Cedente" ranking query built by the script. *)
(*   SpecFmt  the four formatters applied to bounded sets of inputs.       *)
(*                                                                         *)
(* Text is modelled as a sequence of one-character strings.  Money is an   *)
(* integer number of cents, a share is an integer number of basis points   *)
(* (0.20 = 2000).                                                          *)
(***************************************************************************)
EXTENDS Integers, Sequences, FiniteSets, TLC

VARIABLES
    pc,             \* next block of the script to execute
    run,            \* number of the current script run (1 = first)
    prev_clicked,   \* the previous run ended in st.rerun() after a click
    clicked,        \* st.button(...) returned True in this run
    created,        \* get_engine() built a new engine in this run
    queries,        \* database queries issued so far in this run
    cache_resource, \* st.cache_resource: the set holding the cached engine
    engine,         \* the module-level name `engine`
    n_engines,      \* engines created since the process started
    widgets,        \* values of the widgets of the block just executed
    sent,           \* SQL and bound parameters of the last query sent
    fetched,        \* outcome and return value of the last safe_fetch_* call
    screen,         \* what the block just executed rendered
    tabs_done,      \* tabs whose `with tabs[i]:` block has completed
    view,           \* snapshot of vw_concentracao_cedente_sacado
    vops,           \* snapshot of the table public.vops
    dbq,            \* the query (SQL, parameters) the database executed
    result,         \* what the database returned for dbq
    threshold,      \* concentration threshold the deployment is configured for
    fname,          \* formatter applied last
    fin,            \* its argument
    fout            \* its return value

vars == << pc, run, prev_clicked, clicked, created, queries, cache_resource,
           engine, n_engines, widgets, sent, fetched, screen, tabs_done,
           view, vops, dbq, result, threshold, fname, fin, fout >>

runVars == << pc, run, prev_clicked, clicked, created, queries, cache_resource,
              engine, n_engines, widgets, sent, fetched, screen, tabs_done >>
dbVars  == << view, vops, dbq, result, threshold >>
fmtVars == << fname, fin, fout >>

(***************************************************************************)
(* Bounds of the model.                                                    *)
(***************************************************************************)
Span == 40          \* amounts are sampled within Span cents of each pivot
MaxLen == 2         \* longest text typed into a filter box
MaxRuns == 3        \* script runs of one session
MaxVops == 3        \* rows of public.vops

(***************************************************************************)
(* Python values handed to the formatters.                                 *)
(***************************************************************************)
PyNone == [k |-> "None"]
PyNaN  == [k |-> "NaN"]
Num(c) == [k |-> "num", cents |-> c]
BadText == [k |-> "str", s |-> <<"a">>]      \* text float() cannot parse

\* pd.isna(x) for a scalar
isna(x) == x.k \in {"None", "NaN"}

-----------------------------------------------------------------------------
(***************************************************************************)
(* FORMATTERS (src/app.py 89-122)                                          *)
(***************************************************************************)
Digit(d) == CASE d = 0 -> "0" [] d = 1 -> "1" [] d = 2 -> "2" [] d = 3 -> "3"
              [] d = 4 -> "4" [] d = 5 -> "5" [] d = 6 -> "6" [] d = 7 -> "7"
              [] d = 8 -> "8" [] d = 9 -> "9"

RECURSIVE NatDigits(_)
NatDigits(n) == IF n < 10 THEN << Digit(n) >>
                ELSE Append(NatDigits(n \div 10), Digit(n % 10))

\* The "," option of the format specification: a comma between every group
\* of three digits of the integer part, counted from the right.
RECURSIVE GroupThousands(_)
GroupThousands(ds) ==
    IF Len(ds) <= 3 THEN ds
    ELSE GroupThousands(SubSeq(ds, 1, Len(ds) - 3)) \o << "," >>
         \o SubSeq(ds, Len(ds) - 2, Len(ds))

Abs(n) == IF n < 0 THEN 0 - n ELSE n

\* f"{x:,.2f}" for a float x: "nan" for NaN, else sign, grouped integer
\* part, ".", two decimals.
FormatCommaF2(x) ==
    IF x.k = "NaN" THEN << "n", "a", "n" >>
    ELSE (IF x.cents < 0 THEN << "-" >> ELSE << >>)
         \o GroupThousands(NatDigits(Abs(x.cents) \div 100))
         \o << ".", Digit((Abs(x.cents) % 100) \div 10), Digit(Abs(x.cents) % 10) >>

\* f"{x:.2f}" for a float x given in hundredths.
FormatF2(x) ==
    IF x.k = "NaN" THEN << "n", "a", "n" >>
    ELSE (IF x.cents < 0 THEN << "-" >> ELSE << >>)
         \o NatDigits(Abs(x.cents) \div 100)
         \o << ".", Digit((Abs(x.cents) % 100) \div 10), Digit(Abs(x.cents) % 10) >>

\* str.replace(a, b) for one-character a and b.
Replace(s, a, b) == [i \in 1..Len(s) |-> IF s[i] = a THEN b ELSE s[i]]

\* float(v) raises TypeError for None and ValueError for unparsable text.
FloatRaises(v) == v.k \in {"None", "str"}

BRL == << "R", "$", " " >>
ZeroBRL == << "R", "$", " ", "0", ",", "0", "0" >>

\* A slip in the separator swap: "," is turned into "." before "." is
\* turned into ",", so every separator ends up as ",".
fmt_money_noswap(v) ==
    IF FloatRaises(v) THEN ZeroBRL
    ELSE Replace(Replace(BRL \o FormatCommaF2(v), ",", "."), ".", ",")

fmt_money(v) ==
    IF FloatRaises(v) THEN ZeroBRL
    ELSE Replace(Replace(Replace(BRL \o FormatCommaF2(v), ",", "X"),
                         ".", ","), "X", ".")

fmt_money_cell(x) == IF isna(x) THEN << >> ELSE fmt_money(x)

\* The cell holds a decimal fraction in basis points (x.cents = 2000 is
\* 0.20); float(x) * 100 is that many hundredths of a percent.
fmt_pct_cell(x) ==
    IF isna(x) THEN << >>
    ELSE IF FloatRaises(x) THEN << >>
    ELSE Replace(FormatF2(x) \o << "%" >>, ".", ",")

Pad2(n) == << Digit(n \div 10), Digit(n % 10) >>
Pad4(n) == << Digit(n \div 1000), Digit((n \div 100) % 10),
              Digit((n \div 10) % 10), Digit(n % 10) >>

NotAvailable == << "N", "/", "D" >>

\* strftime("%d/%m/%Y %H:%M:%S")
Strftime(t) == Pad2(t.d) \o << "/" >> \o Pad2(t.m) \o << "/" >> \o Pad4(t.y)
               \o << " " >> \o Pad2(t.H) \o << ":" >> \o Pad2(t.M)
               \o << ":" >> \o Pad2(t.S)

fmt_dt(dt) ==
    IF isna(dt) THEN NotAvailable
    ELSE IF dt.k = "ts" THEN Strftime(dt)
    ELSE dt.s                       \* pd.to_datetime raised: str(dt)

-----------------------------------------------------------------------------
(***************************************************************************)
(* DB ACCESS (src/app.py 47-83)                                            *)
(*                                                                         *)
(* A DataFrame is [columns, rows].  The database answers a query with      *)
(* [ok |-> FALSE] (the driver raises: connection lost, relation absent,    *)
(* SQL error) or with [ok |-> TRUE, df |-> ...].                           *)
(***************************************************************************)
DF(cols, rows) == [columns |-> cols, rows |-> rows]

\* pd.DataFrame()
EmptyDataFrame == DF({}, << >>)

\* DataFrame.empty
empty(df) == df.columns = {} \/ df.rows = << >>

\* @st.cache_resource get_engine(): build an engine only when none is cached.
get_engine(cache, n) ==
    IF cache = {}
    THEN [engine |-> {n + 1}, cache |-> {n + 1}, n |-> n + 1, created |-> TRUE]
    ELSE [engine |-> cache, cache |-> cache, n |-> n, created |-> FALSE]

\* fetch_df / fetch_one: the driver's exception propagates.
fetch_df(resp) == IF resp.ok THEN [raised |-> FALSE, ret |-> resp.df]
                  ELSE [raised |-> TRUE]

fetch_one(resp) == IF resp.ok THEN [raised |-> FALSE, ret |-> resp.scalar]
                   ELSE [raised |-> TRUE]

\* The wrapper without its try/except.
safe_fetch_df_unsafe(resp) ==
    LET r == fetch_df(resp)
    IN  IF r.raised THEN [raised |-> TRUE, ret |-> EmptyDataFrame, warning |-> FALSE]
        ELSE [raised |-> FALSE, ret |-> r.ret, warning |-> FALSE]

safe_fetch_df(resp) ==
    LET r == fetch_df(resp)
    IN  IF r.raised THEN [raised |-> FALSE, ret |-> EmptyDataFrame, warning |-> TRUE]
        ELSE [raised |-> FALSE, ret |-> r.ret, warning |-> FALSE]

\* label is "" when the caller passes none.
safe_fetch_one(resp, default, label) ==
    LET r == fetch_one(resp)
    IN  IF r.raised THEN [raised |-> FALSE, ret |-> default, warning |-> label # ""]
        ELSE [raised |-> FALSE, ret |-> r.ret, warning |-> FALSE]

\* What the database may answer to a query whose result has columns cols.
Responses(cols) ==
    {[ok |-> FALSE]} \cup {[ok |-> TRUE, df |-> DF(cols, rows)] : rows \in {<< >>, << "row" >>}}

\* An aggregate without GROUP BY never returns zero rows.
AggregateResponses(cols) ==
    {[ok |-> FALSE], [ok |-> TRUE, df |-> DF(cols, << "row" >>)]}

\* SELECT * : the table has the columns the query orders by, and either has
\* the columns the script formats or has none of them.
StarResponses(orderCols, fmtCols) ==
    Responses(orderCols \cup fmtCols) \cup Responses(orderCols)

Call(fn, resp, r) ==
    [fn |-> fn, outcome |-> IF resp.ok THEN "ok" ELSE "fail",
     zero_rows |-> IF fn = "safe_fetch_df" THEN resp.ok /\ resp.df.rows = << >>
                   ELSE resp.ok /\ resp.scalar = PyNone,
     raised |-> r.raised, ret |-> r.ret, warning |-> r.warning]

-----------------------------------------------------------------------------
(***************************************************************************)
(* WIDGETS AND SQL CONSTRUCTION                                            *)
(*                                                                         *)
(* A query is [select, where, order_by, limit]: the fixed SELECT ... FROM  *)
(* text, the clauses appended after "WHERE 1=1", the ORDER BY keys and the *)
(* LIMIT operand, in the order the script concatenates them.  The bound    *)
(* parameters are a function from parameter name to value.                 *)
(***************************************************************************)
Alphabet == {" ", "a", "'"}

Texts == UNION {[1..n -> Alphabet] : n \in 0..MaxLen}

RECURSIVE LStrip(_)
LStrip(t) == IF t # << >> /\ Head(t) = " " THEN LStrip(Tail(t)) ELSE t

RECURSIVE RStrip(_)
RStrip(t) == IF t # << >> /\ t[Len(t)] = " " THEN RStrip(SubSeq(t, 1, Len(t) - 1))
             ELSE t

\* str.strip()
Strip(t) == RStrip(LStrip(t))

\* f"%{t}%"
Like(t) == << "%" >> \o t \o << "%" >>

Key(col, dir, nulls) == [col |-> col, dir |-> dir, nulls |-> nulls]

\* st.number_input("Top N", min_value=10, max_value=500, value=50)
TopNRotulo == {10, 50, 500}
\* st.number_input("Top N (Concentração)", min_value=50, max_value=2000, value=500)
TopNConc == {50, 500, 2000}

RotuloWidgets ==
    [filtro_rotulo : Texts, top_n : TopNRotulo, incluir_ni : BOOLEAN]

ConcWidgets ==
    [filtro_cedente : Texts, somente_alertas : BOOLEAN, top_n : TopNConc]

VopsWidgets ==
    [filtro_cedente_vop : Texts, filtro_cpf_cnpj : Texts, incluir_somente_46 : BOOLEAN]

\* The filter text spliced into the SQL text instead of being bound.
sql_rotulo_interpolated(w) ==
    [select   |-> "rotulo, qtd_titulos, risco_vlr_aberto, pct_total FROM public.vw_risco_por_rotulo",
     where    |-> (IF Strip(w.filtro_rotulo) # << >>
                   THEN << << "rotulo ILIKE", Like(Strip(w.filtro_rotulo)) >> >>
                   ELSE << >>)
                  \o (IF ~w.incluir_ni THEN << "rotulo <> 'N/I'" >> ELSE << >>),
     order_by |-> << Key("risco_vlr_aberto", "DESC", "default") >>,
     limit    |-> ":top_n"]

sql_rotulo(w) ==
    [select   |-> "rotulo, qtd_titulos, risco_vlr_aberto, pct_total FROM public.vw_risco_por_rotulo",
     where    |-> (IF Strip(w.filtro_rotulo) # << >> THEN << "rotulo ILIKE :rotulo" >>
                   ELSE << >>)
                  \o (IF ~w.incluir_ni THEN << "rotulo <> 'N/I'" >> ELSE << >>),
     order_by |-> << Key("risco_vlr_aberto", "DESC", "default") >>,
     limit    |-> ":top_n"]

params_rotulo(w) ==
    IF Strip(w.filtro_rotulo) # << >>
    THEN [rotulo |-> Like(Strip(w.filtro_rotulo)), top_n |-> w.top_n]
    ELSE [top_n |-> w.top_n]

\* The ORDER BY of the concentration query with its second key ascending.
order_conc_asc ==
    << Key("flag_ultrapassa_20", "DESC", "default"),
       Key("pct_no_cedente", "ASC", "default"),
       Key("vlr_aberto_sacado", "DESC", "default") >>

order_conc ==
    << Key("flag_ultrapassa_20", "DESC", "default"),
       Key("pct_no_cedente", "DESC", "default"),
       Key("vlr_aberto_sacado", "DESC", "default") >>

sql_conc(w) ==
    [select   |-> "cedente, sacado, vlr_aberto_sacado, vlr_aberto_cedente, pct_no_cedente, flag_ultrapassa_20 FROM public.vw_concentracao_cedente_sacado",
     where    |-> (IF Strip(w.filtro_cedente) # << >> THEN << "cedente ILIKE :cedente" >>
                   ELSE << >>)
                  \o (IF w.somente_alertas THEN << "flag_ultrapassa_20 = true" >>
                      ELSE << >>),
     order_by |-> order_conc,
     limit    |-> ":top_n"]

params_conc(w) ==
    IF Strip(w.filtro_cedente) # << >>
    THEN [cedente |-> Like(Strip(w.filtro_cedente)), top_n |-> w.top_n]
    ELSE [top_n |-> w.top_n]

Only46 == "NULLIF(TRIM(situacao_operacao), '') IS NOT NULL AND LOWER(TRIM(situacao_operacao)) <> 'nan' AND (TRIM(situacao_operacao))::numeric IN (4, 6)"

sql_vops(w) ==
    [select   |-> "* FROM public.vops",
     where    |-> (IF w.incluir_somente_46 THEN << Only46 >> ELSE << >>)
                  \o (IF Strip(w.filtro_cedente_vop) # << >>
                      THEN << "cedente ILIKE :cedente" >> ELSE << >>)
                  \o (IF Strip(w.filtro_cpf_cnpj) # << >>
                      THEN << "cpf_cnpj ILIKE :cpf" >> ELSE << >>),
     order_by |-> << Key("dta_neg", "DESC", "LAST") >>,
     limit    |-> "2000"]

params_vops(w) ==
    LET c == Strip(w.filtro_cedente_vop)
        d == Strip(w.filtro_cpf_cnpj)
    IN  IF c # << >> /\ d # << >> THEN [cedente |-> Like(c), cpf |-> Like(d)]
        ELSE IF c # << >> THEN [cedente |-> Like(c)]
        ELSE IF d # << >> THEN [cpf |-> Like(d)]
        ELSE << >>

\* The queries that take no widget input.
sql_kpis == [select |-> "* FROM public.vw_kpis", where |-> << >>,
             order_by |-> << >>, limit |-> ""]

sql_last_update == [select |-> "last_update FROM public.vw_last_update",
                    where |-> << >>, order_by |-> << >>, limit |-> ""]

sql_resumo == [select |-> "'Vencidos' AS item, COALESCE(SUM(vlr_aberto), 0) AS valor FROM public.sacado_consolidado UNION ALL SELECT 'Carteira' AS item, COALESCE(SUM(vlr_aberto), 0) AS valor FROM public.cobranca_consolidada",
               where |-> << >>, order_by |-> << >>, limit |-> ""]

sql_vop_ced ==
    [select   |-> "COALESCE(cedente, 'N/I') AS cedente, COUNT(*) AS qtd, COALESCE(SUM(vlr_aprovado), 0) AS vlr_aprovado FROM public.vops GROUP BY 1",
     where    |-> << Only46 >>,
     order_by |-> << Key("vlr_aprovado", "DESC", "default") >>,
     limit    |-> "20"]

sql_sacado == [select |-> "* FROM public.sacado_consolidado", where |-> << >>,
               order_by |-> << Key("ingested_at", "DESC", "LAST") >>,
               limit |-> "2000"]

sql_mon == [select |-> "* FROM public.monitore_diario", where |-> << >>,
            order_by |-> << Key("data_ref", "DESC", "LAST"),
                            Key("ingested_at", "DESC", "LAST") >>,
            limit |-> "2000"]

sql_lim == [select |-> "* FROM public.limites", where |-> << >>,
            order_by |-> << Key("ingested_at", "DESC", "LAST") >>,
            limit |-> "2000"]

NoParams == << >>

-----------------------------------------------------------------------------
(***************************************************************************)
(* THE SCRIPT, BLOCK BY BLOCK                                              *)
(*                                                                         *)
(* Each operator below is one block of the script as a function of what    *)
(* the user set and what the database answered.  It returns the queries    *)
(* sent, the safe_fetch_* calls made, whether an exception escaped the     *)
(* block, and what was rendered.                                           *)
(***************************************************************************)
KpiCols == {"pl_securitizadora", "vop_geral", "vop_mensal", "vop_diario"}

\* df.loc[0, col] and df[col] raise KeyError when the label is absent.
LocRaises(df, col) == df.rows = << >> \/ col \notin df.columns
ColRaises(df, col) == col \notin df.columns

\* Lines 147-156 without the `if not df_kpis.empty` guard.
read_kpis_unguarded(df) ==
    IF \E c \in KpiCols : LocRaises(df, c) THEN [raised |-> TRUE]
    ELSE [raised |-> FALSE,
          pl |-> df.rows[1].pl_securitizadora, vop_geral |-> df.rows[1].vop_geral,
          vop_mensal |-> df.rows[1].vop_mensal, vop_diario |-> df.rows[1].vop_diario]

\* Lines 147-156: the four KPI values, 0 unless vw_kpis returned a row.
read_kpis(df) ==
    IF ~empty(df)
    THEN IF \E c \in KpiCols : LocRaises(df, c) THEN [raised |-> TRUE]
         ELSE [raised |-> FALSE,
               pl |-> df.rows[1].pl_securitizadora, vop_geral |-> df.rows[1].vop_geral,
               vop_mensal |-> df.rows[1].vop_mensal, vop_diario |-> df.rows[1].vop_diario]
    ELSE [raised |-> FALSE, pl |-> Num(0), vop_geral |-> Num(0),
          vop_mensal |-> Num(0), vop_diario |-> Num(0)]

Rendered(info, table, texts, download, formatted) ==
    [info |-> info, table |-> table, texts |-> texts, download |-> download,
     formatted |-> formatted]

Nothing == Rendered(FALSE, FALSE, << >>, FALSE, {})

\* Lines 145-177: vw_kpis, vw_last_update and the five metric cards.
kpi_section(respK, respU) ==
    LET f == safe_fetch_df(respK)
        k == IF f.raised THEN [raised |-> TRUE] ELSE read_kpis(f.ret)
        u == safe_fetch_one(respU, PyNone, "")
    IN  IF f.raised \/ k.raised
        THEN [calls |-> << Call("safe_fetch_df", respK, f) >>, raised |-> TRUE,
              out |-> Nothing]
        ELSE [calls |-> << Call("safe_fetch_df", respK, f),
                           Call("safe_fetch_one", respU, u) >>,
              raised |-> u.raised,
              out |-> Rendered(FALSE, FALSE,
                               << fmt_money(k.pl), fmt_money(k.vop_geral),
                                  fmt_money(k.vop_mensal), fmt_money(k.vop_diario),
                                  fmt_dt(u.ret) >>, FALSE, {})]

\* A block that fetches one DataFrame, maps a formatter over columns of it
\* and shows it with st.dataframe.  The columns of `always` are formatted
\* by name, those of `ifPresent` only `if col in df.columns`; with `guarded`
\* nothing is formatted when the frame is empty.
table_block(resp, guarded, always, ifPresent) ==
    LET f  == safe_fetch_df(resp)
        df == f.ret
        formatted == IF guarded /\ empty(df) THEN {}
                     ELSE always \cup (ifPresent \cap df.columns)
    IN  [calls  |-> << Call("safe_fetch_df", resp, f) >>,
         raised |-> f.raised \/ \E c \in formatted : ColRaises(df, c),
         out    |-> Rendered(FALSE, TRUE, << >>, FALSE, formatted)]

\* A block that shows st.info("Sem dados para exibir.") for an empty frame
\* and otherwise formats `always`, shows the frame and a CSV download.
info_or_table_block(resp, always) ==
    LET f  == safe_fetch_df(resp)
        df == f.ret
        formatted == IF empty(df) THEN {} ELSE always
    IN  [calls  |-> << Call("safe_fetch_df", resp, f) >>,
         raised |-> f.raised \/ \E c \in formatted : ColRaises(df, c),
         out    |-> IF ~f.raised /\ empty(df)
                    THEN Rendered(TRUE, FALSE, << >>, FALSE, formatted)
                    ELSE Rendered(FALSE, TRUE, << >>, TRUE, formatted)]

ResumoCols  == {"item", "valor"}
VopCedCols  == {"cedente", "qtd", "vlr_aprovado"}
RotuloCols  == {"rotulo", "qtd_titulos", "risco_vlr_aberto", "pct_total"}
ConcCols    == {"cedente", "sacado", "vlr_aberto_sacado", "vlr_aberto_cedente",
                "pct_no_cedente", "flag_ultrapassa_20"}
SacadoCols  == {"vlr_face", "vlr_aberto", "vlr_desc", "vlr_ocorrencia"}
VopsCols    == {"rem_gestora", "rem_qcert", "vlr_face", "vlr_aprovado", "vlr_liquido"}
MonCols     == {"saldo_anterior", "saldo_atual", "evolucao", "variacao"}
LimCols     == {"limite", "limite_total", "limite_disponivel", "limite_utilizado"}

tab_resumo(resp)   == table_block(resp, TRUE, {"valor"}, {})
tab_vop_ced(resp)  == table_block(resp, TRUE, {"vlr_aprovado"}, {})
tab_rotulo(resp)   == info_or_table_block(resp, {"risco_vlr_aberto", "pct_total"})
tab_conc(resp)     == info_or_table_block(resp, {"vlr_aberto_sacado", "vlr_aberto_cedente",
                                                 "pct_no_cedente"})
tab_vencidos(resp) == table_block(resp, FALSE, {}, SacadoCols)
tab_vops(resp)     == table_block(resp, FALSE, {}, VopsCols)
tab_monitore(resp) == table_block(resp, TRUE, {}, MonCols)
tab_limites(resp)  == table_block(resp, FALSE, {}, LimCols)

\* st.cache_resource.clear() left out of the button handler.
refresh_click_keep(cache) == cache

\* Lines 134-137: what the click on "Atualizar agora" leaves in
\* st.cache_resource (st.cache_data holds nothing: no function uses it).
refresh_click(cache) == {}

-----------------------------------------------------------------------------
(***************************************************************************)
(* THE DATABASE SIDE OF TWO QUERIES                                        *)
(*                                                                         *)
(* A relation is a set of rows; a row carries n, the number of identical   *)
(* copies of it (rows that differ only in columns no query looks at).  The *)
(* database answers with the tie groups of the ORDER BY in order: rows of  *)
(* one group compare equal on every key and may come back in any order.    *)
(* Column values are never NULL here.                                      *)
(***************************************************************************)
RECURSIVE SumN(_)
SumN(S) == IF S = {} THEN 0
           ELSE LET r == CHOOSE x \in S : TRUE IN r.n + SumN(S \ {r})

Lower(ch) == IF ch = "A" THEN "a" ELSE ch
LowerText(t) == [i \in 1..Len(t) |-> Lower(t[i])]

\* s holds the text t
HasText(s, t) ==
    \E i \in 1..(Len(s) - Len(t) + 1) : SubSeq(s, i, i + Len(t) - 1) = t

\* value ILIKE pattern, for a pattern of the form %t%
ILike(value, pattern) ==
    HasText(LowerText(value), LowerText(SubSeq(pattern, 2, Len(pattern) - 1)))

\* The value of a sort key column as a number (true sorts above false).
Val(r, col) == CASE col = "flag_ultrapassa_20" -> (IF r.flag THEN 1 ELSE 0)
                 [] col = "pct_no_cedente"     -> r.pct
                 [] col = "vlr_aberto_sacado"  -> r.vlr
                 [] col = "vlr_aprovado"       -> r.vlr_aprovado

\* One WHERE clause of the two queries, evaluated on a row.
Holds(r, clause, params) ==
    CASE clause = "cedente ILIKE :cedente"    -> ILike(r.cedente, params.cedente)
      [] clause = "flag_ultrapassa_20 = true" -> r.flag
      [] clause = Only46                      -> r.situacao_operacao \in {"4", "6", "6.0"}

Where(rows, q) ==
    {r \in rows : \A i \in 1..Len(q.sql.where) : Holds(r, q.sql.where[i], q.params)}

KeyOf(r, order) == [i \in 1..Len(order) |-> Val(r, order[i].col)]

\* k1 sorts strictly before k2
KeyBefore(k1, k2, order) ==
    \E i \in 1..Len(order) :
        /\ \A j \in 1..(i - 1) : k1[j] = k2[j]
        /\ IF order[i].dir = "DESC" THEN k1[i] > k2[i] ELSE k1[i] < k2[i]

RECURSIVE SortKeys(_, _)
SortKeys(K, order) ==
    IF K = {} THEN << >>
    ELSE LET first == CHOOSE k \in K : \A k2 \in K \ {k} : KeyBefore(k, k2, order)
         IN  << first >> \o SortKeys(K \ {first}, order)

\* ORDER BY: the tie groups of rows, in order.
OrderBy(rows, order) ==
    LET ks == SortKeys({KeyOf(r, order) : r \in rows}, order)
    IN  [i \in 1..Len(ks) |->
           LET g == {r \in rows : KeyOf(r, order) = ks[i]}
           IN  [rows |-> g, size |-> SumN(g)]]

RECURSIVE SizeUpTo(_, _)
SizeUpTo(groups, i) == IF i = 0 THEN 0 ELSE groups[i].size + SizeUpTo(groups, i - 1)

Min(a, b) == IF a < b THEN a ELSE b
Max(a, b) == IF a > b THEN a ELSE b

\* LIMIT n over ordered tie groups: how many rows of each group come back.
Limit(groups, n) ==
    LET cut == [i \in 1..Len(groups) |->
                  [rows  |-> groups[i].rows, size |-> groups[i].size,
                   taken |-> Min(groups[i].size,
                                 Max(0, n - SizeUpTo(groups, i - 1)))]]
    IN  SelectSeq(cut, LAMBDA g : g.taken > 0)

\* The operand of LIMIT: a literal of the SQL text or the bound :top_n.
LimitOf(q) == CASE q.sql.limit = ":top_n" -> q.params.top_n
                [] q.sql.limit = "20"     -> 20
                [] q.sql.limit = "2000"   -> 2000

\* The concentration query on a snapshot of the view.
exec_conc(rows, q) == Limit(OrderBy(Where(rows, q), q.sql.order_by), LimitOf(q))

\* COALESCE(cedente, 'N/I')
CoalesceNI(c) == IF c = "NULL" THEN "N/I" ELSE c

\* GROUP BY 1 with COUNT(*) and COALESCE(SUM(vlr_aprovado), 0) over the rows
\* of a table given as a sequence.
RECURSIVE SumVlr(_, _)
SumVlr(t, c) ==
    IF t = << >> THEN 0
    ELSE (IF CoalesceNI(Head(t).cedente) = c THEN Head(t).vlr_aprovado ELSE 0)
         + SumVlr(Tail(t), c)

GroupByCedente(t) ==
    {[cedente |-> c, qtd |-> Len(SelectSeq(t, LAMBDA r : CoalesceNI(r.cedente) = c)),
      vlr_aprovado |-> SumVlr(t, c), n |-> 1] :
        c \in {CoalesceNI(t[i].cedente) : i \in DOMAIN t}}

\* Every order in which the database may hand back the ordered tie groups:
\* rows of one group in any order.
Orderings(groups) ==
    LET rows == UNION {groups[i].rows : i \in DOMAIN groups}
        pos(r) == CHOOSE i \in DOMAIN groups : r \in groups[i].rows
    IN  {s \in [1..Cardinality(rows) -> rows] :
           /\ \A i, j \in DOMAIN s : i # j => s[i] # s[j]
           /\ \A i, j \in DOMAIN s : i < j => pos(s[i]) <= pos(s[j])}

\* The "VOP por Cedente (Top 20)" query on a snapshot of public.vops: the
\* set of results the database may return.
exec_vop_ced(t, q) ==
    LET kept == SelectSeq(t, LAMBDA r : \A i \in 1..Len(q.sql.where) :
                                           Holds(r, q.sql.where[i], q.params))
    IN  {SubSeq(s, 1, Min(Len(s), LimitOf(q))) :
           s \in Orderings(OrderBy(GroupByCedente(kept), q.sql.order_by))}

(***************************************************************************)
(* vw_concentracao_cedente_sacado.  The view is defined in the database,   *)
(* not in the script; the script states its rule in the caption of the     *)
(* tab: "sacado não pode representar 20% ou mais do vlr_aberto total do    *)
(* cedente".  A creditor's ledger is a set of <<open amount, number of     *)
(* debtors owing exactly that amount>>.                                    *)
(***************************************************************************)
\* The 20% of flag_ultrapassa_20, in basis points.
Pct20 == 2000

Ledgers ==
    { {},                                   \* no open receivable
      {<<8000, 1>>, <<2000, 1>>},           \* 80% and exactly 20%
      {<<8001, 1>>, <<1999, 1>>},           \* 80.01% and 19.99%
      {<<100, 100>>},                       \* a hundred debtors of 1% each
      {<<4000, 1>>, <<200, 80>>} }          \* 20% and eighty debtors of 1%

CedNames == { << "A" >>, << "a", "'" >> }

EmptyView == [c \in CedNames |-> {}]

RECURSIVE LedgerTotal(_)
LedgerTotal(L) == IF L = {} THEN 0
                  ELSE LET e == CHOOSE x \in L : TRUE
                       IN  e[1] * e[2] + LedgerTotal(L \ {e})

ViewRow(c, e, total) ==
    [cedente |-> c, vlr |-> e[1], total |-> total,
     pct  |-> (e[1] * 10000) \div total,
     flag |-> (e[1] * 10000) \div total >= Pct20,
     n    |-> e[2]]

ViewRows(v) ==
    UNION {{ViewRow(c, e, LedgerTotal(v[c])) : e \in v[c]} : c \in CedNames}

-----------------------------------------------------------------------------
(***************************************************************************)
(* Inputs of the formatter specification.                                  *)
(***************************************************************************)
Pivots == {0, 100, 1000, 100000, 1000000, 100000000, 123456750, 1000000000}

Amounts == {c \in UNION {(p - Span)..(p + Span) : p \in Pivots} : c >= 0}

MoneyInputs == {PyNone, PyNaN, BadText, Num(-123450)} \cup {Num(c) : c \in Amounts}

PctInputs == {PyNone, PyNaN, BadText}
             \cup {Num(c) : c \in (0..Span) \cup {1999, 2000, 2001, 10000, 123456}}

Timestamps == {[k |-> "ts", d |-> d, m |-> 2, y |-> 2024, H |-> h, M |-> 5, S |-> s] :
                 d \in {1, 29}, h \in {0, 23}, s \in {0, 59}}

DtInputs == {PyNone, PyNaN, BadText} \cup Timestamps

Idle == "idle"

InitRun ==
    /\ pc = "top"
    /\ run = 1
    /\ prev_clicked = FALSE
    /\ clicked = FALSE
    /\ created = FALSE
    /\ queries = 0
    /\ cache_resource = {}
    /\ engine = {}
    /\ n_engines = 0
    /\ widgets = Idle
    /\ sent = Idle
    /\ fetched = << >>
    /\ screen = [block |-> "none", out |-> Nothing, warnings |-> 0]
    /\ tabs_done = {}

InitDb ==
    /\ view = EmptyView
    /\ vops = << >>
    /\ dbq = [kind |-> "none"]
    /\ result = << >>
    /\ threshold = Pct20

InitFmt ==
    /\ fname = Idle
    /\ fin = PyNone
    /\ fout = << >>

Init == InitRun /\ InitDb /\ InitFmt

-----------------------------------------------------------------------------
(***************************************************************************)
(* THE SCRIPT RUNS (Spec)                                                  *)
(***************************************************************************)
KpiValues == {PyNone, PyNaN, Num(0), Num(123456750)}

KpiResponses ==
    {[ok |-> FALSE], [ok |-> TRUE, df |-> DF(KpiCols, << >>)]}
    \cup {[ok |-> TRUE,
           df |-> DF(KpiCols, << [pl_securitizadora |-> a, vop_geral |-> b,
                                  vop_mensal |-> c, vop_diario |-> d] >>)] :
            a \in KpiValues, b \in KpiValues, c \in {Num(0)}, d \in {PyNaN, Num(0)}}

\* conn.execute(...).scalar(): None when the view has no row or a NULL.
LastUpdateResponses ==
    {[ok |-> FALSE], [ok |-> TRUE, scalar |-> PyNone]}
    \cup {[ok |-> TRUE, scalar |-> t] : t \in Timestamps}

\* st.button returns True only in the run its click triggers: never in the
\* first run of a session nor in the run started by st.rerun().
ButtonStates == IF run = 1 \/ prev_clicked THEN {FALSE} ELSE BOOLEAN

Query(sql, params) == [sql |-> sql, params |-> params]

\* The state after a block: b is what the block operator returned.
Block(name, nextpc, w, qs, b, tab) ==
    /\ widgets' = w
    /\ sent' = qs
    /\ fetched' = b.calls
    /\ queries' = queries + Len(b.calls)
    /\ IF b.raised
       THEN /\ pc' = "crashed"
            /\ screen' = [block |-> name, out |-> Nothing, warnings |-> 0]
            /\ tabs_done' = tabs_done
       ELSE /\ pc' = nextpc
            /\ screen' = [block |-> name, out |-> b.out,
                          warnings |-> Cardinality({i \in 1..Len(b.calls) :
                                                      b.calls[i].warning})]
            /\ tabs_done' = tabs_done \cup tab
    /\ UNCHANGED << run, prev_clicked, clicked, created, cache_resource, engine,
                    n_engines, dbVars, fmtVars >>

\* Lines 53 and 128-139: engine = get_engine(), the title, the button.
TopBar ==
    /\ pc = "top"
    /\ LET g == get_engine(cache_resource, n_engines)
       IN  \E c \in ButtonStates :
             /\ engine' = g.engine
             /\ n_engines' = g.n
             /\ created' = g.created
             /\ clicked' = c
             /\ cache_resource' = IF c THEN refresh_click(g.cache) ELSE g.cache
             /\ pc' = IF c THEN "rerun" ELSE "kpis"
    /\ screen' = [block |-> "top", out |-> Nothing, warnings |-> 0]
    /\ UNCHANGED << run, prev_clicked, queries, widgets, sent, fetched, tabs_done,
                    dbVars, fmtVars >>

StartRun(afterClick) ==
    /\ run < MaxRuns
    /\ run' = run + 1
    /\ prev_clicked' = afterClick
    /\ pc' = "top"
    /\ clicked' = FALSE
    /\ created' = FALSE
    /\ queries' = 0
    /\ widgets' = Idle
    /\ sent' = Idle
    /\ fetched' = << >>
    /\ screen' = [block |-> "none", out |-> Nothing, warnings |-> 0]
    /\ tabs_done' = {}
    /\ UNCHANGED << cache_resource, engine, n_engines, dbVars, fmtVars >>

\* st.rerun(): the run stops and the script starts again at once.
Rerun == pc = "rerun" /\ StartRun(TRUE)

\* The user touches a widget of the finished page: the script runs again.
Interact == pc = "done" /\ StartRun(FALSE)

KpiSection ==
    /\ pc = "kpis"
    /\ \E rk \in KpiResponses, ru \in LastUpdateResponses :
         Block("kpis", "resumo", Idle,
               << Query(sql_kpis, NoParams), Query(sql_last_update, NoParams) >>,
               kpi_section(rk, ru), {})

TabResumo ==
    /\ pc = "resumo"
    /\ \E r \in AggregateResponses(ResumoCols) :
         Block("resumo", "vop_ced", Idle, << Query(sql_resumo, NoParams) >>,
               tab_resumo(r), {})

TabVopCed ==
    /\ pc = "vop_ced"
    /\ \E r \in Responses(VopCedCols) :
         Block("vop_ced", "rotulo", Idle, << Query(sql_vop_ced, NoParams) >>,
               tab_vop_ced(r), {0})

TabRotulo ==
    /\ pc = "rotulo"
    /\ \E w \in RotuloWidgets, r \in Responses(RotuloCols) :
         Block("rotulo", "conc", w, << Query(sql_rotulo(w), params_rotulo(w)) >>,
               tab_rotulo(r), {1})

TabConc ==
    /\ pc = "conc"
    /\ \E w \in ConcWidgets, r \in Responses(ConcCols) :
         Block("conc", "vencidos", w, << Query(sql_conc(w), params_conc(w)) >>,
               tab_conc(r), {2})

TabVencidos ==
    /\ pc = "vencidos"
    /\ \E r \in StarResponses({"ingested_at"}, SacadoCols) :
         Block("vencidos", "vops", Idle, << Query(sql_sacado, NoParams) >>,
               tab_vencidos(r), {3})

TabVops ==
    /\ pc = "vops"
    /\ \E w \in VopsWidgets, r \in StarResponses({"dta_neg"}, VopsCols) :
         Block("vops", "monitore", w, << Query(sql_vops(w), params_vops(w)) >>,
               tab_vops(r), {4})

TabMonitore ==
    /\ pc = "monitore"
    /\ \E r \in StarResponses({"data_ref", "ingested_at"}, MonCols) :
         Block("monitore", "limites", Idle, << Query(sql_mon, NoParams) >>,
               tab_monitore(r), {5})

TabLimites ==
    /\ pc = "limites"
    /\ \E r \in StarResponses({"ingested_at"}, LimCols) :
         Block("limites", "footer", Idle, << Query(sql_lim, NoParams) >>,
               tab_limites(r), {6})

\* Line 468
Footer ==
    /\ pc = "footer"
    /\ pc' = "done"
    /\ screen' = [block |-> "footer", out |-> Nothing, warnings |-> 0]
    /\ widgets' = Idle
    /\ sent' = Idle
    /\ fetched' = << >>
    /\ UNCHANGED << run, prev_clicked, clicked, created, queries, cache_resource,
                    engine, n_engines, tabs_done, dbVars, fmtVars >>

Next ==
    \/ TopBar
    \/ Rerun
    \/ Interact
    \/ KpiSection
    \/ TabResumo
    \/ TabVopCed
    \/ TabRotulo
    \/ TabConc
    \/ TabVencidos
    \/ TabVops
    \/ TabMonitore
    \/ TabLimites
    \/ Footer

Spec == Init /\ [][Next]_vars

-----------------------------------------------------------------------------
(***************************************************************************)
(* Properties of the script runs.                                          *)
(***************************************************************************)
TabBlocks == {"resumo", "vop_ced", "rotulo", "conc", "vencidos", "vops",
              "monitore", "limites"}

\* C1: a data-access failure inside safe_fetch_df / safe_fetch_one never
\* reaches the consuming code as an exception: safe_fetch_df hands back the
\* empty table (as for a query without rows, DataFrame.empty is true) and
\* safe_fetch_one hands back the caller's default (None at its one call).
C1_FailureIsEmpty ==
    \A i \in DOMAIN fetched :
        fetched[i].outcome = "fail" =>
            /\ ~fetched[i].raised
            /\ pc # "crashed"
            /\ fetched[i].fn = "safe_fetch_df" =>
                 (fetched[i].ret = EmptyDataFrame /\ empty(fetched[i].ret))
            /\ fetched[i].fn = "safe_fetch_one" => fetched[i].ret = PyNone

C1_Witness ==
    /\ pc = "resumo"
    /\ Len(fetched) = 2
    /\ fetched[1].fn = "safe_fetch_df" /\ fetched[1].outcome = "fail"
    /\ fetched[2].fn = "safe_fetch_one" /\ fetched[2].outcome = "fail"
    /\ screen.out.texts[5] = NotAvailable

Running == {"kpis", "resumo", "vop_ced", "rotulo", "conc", "vencidos", "vops",
            "monitore", "limites", "footer"}

\* C2: whatever each query does (fails, returns no row, returns rows with
\* the expected columns) and whatever the filter widgets hold, no exception
\* escapes a block, every block of a run that passed the button can execute,
\* and the footer is rendered only after all seven tabs have completed.
C2_NoFatalFailure ==
    /\ pc # "crashed"
    /\ pc \in Running => ENABLED Next
    /\ pc \in {"footer", "done"} => tabs_done = 0..6

C2_Witness ==
    /\ pc = "footer"
    /\ tabs_done = 0..6
    /\ fetched[1].outcome = "fail"
    /\ queries = 10

\* C3: whenever the data behind a tab's view is empty (zero rows, or the
\* query failed) the tab renders an explicit notice - st.info("Sem dados
\* para exibir.") or the failure warning - in every tab.
C3_NoDataStateEverywhere ==
    (screen.block \in TabBlocks) =>
        \A i \in DOMAIN fetched :
            empty(fetched[i].ret) => (screen.out.info \/ screen.warnings > 0)

\* A filter text reduced to what the SQL text may depend on: blank or not.
Canon(t) == IF Strip(t) = << >> THEN << >> ELSE << "a" >>

NonBlank(t) == IF Strip(t) # << >> THEN 1 ELSE 0
Flag(b) == IF b THEN 1 ELSE 0

\* C5: for the label, concentration and VOP queries the SQL text depends
\* only on which filter texts are non-blank after trimming and on the
\* checkboxes (it equals the text built for any other filter content and
\* Top N of the same shape); the trimmed text, wrapped in %, and Top N
\* travel as bound parameters, and a blank filter adds neither a clause nor
\* a parameter.
C5_Parameterised ==
    /\ (screen.block = "rotulo") =>
         /\ sent[1].sql = sql_rotulo([filtro_rotulo |-> Canon(widgets.filtro_rotulo),
                                      top_n |-> 50,
                                      incluir_ni |-> widgets.incluir_ni])
         /\ Len(sent[1].sql.where) = NonBlank(widgets.filtro_rotulo)
                                     + Flag(~widgets.incluir_ni)
         /\ DOMAIN sent[1].params =
              {"top_n"} \cup (IF NonBlank(widgets.filtro_rotulo) = 1 THEN {"rotulo"} ELSE {})
         /\ sent[1].params.top_n = widgets.top_n
         /\ NonBlank(widgets.filtro_rotulo) = 1 =>
              sent[1].params.rotulo = Like(Strip(widgets.filtro_rotulo))
    /\ (screen.block = "conc") =>
         /\ sent[1].sql = sql_conc([filtro_cedente |-> Canon(widgets.filtro_cedente),
                                    somente_alertas |-> widgets.somente_alertas,
                                    top_n |-> 500])
         /\ Len(sent[1].sql.where) = NonBlank(widgets.filtro_cedente)
                                     + Flag(widgets.somente_alertas)
         /\ DOMAIN sent[1].params =
              {"top_n"} \cup (IF NonBlank(widgets.filtro_cedente) = 1 THEN {"cedente"} ELSE {})
         /\ sent[1].params.top_n = widgets.top_n
         /\ NonBlank(widgets.filtro_cedente) = 1 =>
              sent[1].params.cedente = Like(Strip(widgets.filtro_cedente))
    /\ (screen.block = "vops") =>
         /\ sent[1].sql = sql_vops([filtro_cedente_vop |-> Canon(widgets.filtro_cedente_vop),
                                    filtro_cpf_cnpj |-> Canon(widgets.filtro_cpf_cnpj),
                                    incluir_somente_46 |-> widgets.incluir_somente_46])
         /\ Len(sent[1].sql.where) = NonBlank(widgets.filtro_cedente_vop)
                                     + NonBlank(widgets.filtro_cpf_cnpj)
                                     + Flag(widgets.incluir_somente_46)
         /\ DOMAIN sent[1].params =
              (IF NonBlank(widgets.filtro_cedente_vop) = 1 THEN {"cedente"} ELSE {})
              \cup (IF NonBlank(widgets.filtro_cpf_cnpj) = 1 THEN {"cpf"} ELSE {})
         /\ NonBlank(widgets.filtro_cedente_vop) = 1 =>
              sent[1].params.cedente = Like(Strip(widgets.filtro_cedente_vop))
         /\ NonBlank(widgets.filtro_cpf_cnpj) = 1 =>
              sent[1].params.cpf = Like(Strip(widgets.filtro_cpf_cnpj))

\* A quote typed between blanks reaches the database as the parameter %'%
\* and leaves the SQL text as it is for any other non-blank filter.
C5_Witness ==
    /\ screen.block = "rotulo"
    /\ widgets.filtro_rotulo = << " ", "'" >>
    /\ sent[1].params.rotulo = << "%", "'", "%" >>
    /\ sent[1].sql.where = << "rotulo ILIKE :rotulo" >>

\* C10: a new engine is created exactly in the first run and in each run
\* that immediately follows a click on "Atualizar agora"; every other run
\* reuses the engine an earlier run cached; a run in which the button is
\* clicked empties the cache and restarts before any query is issued.
C10_EngineLifecycle ==
    pc # "top" =>
        /\ created <=> (run = 1 \/ prev_clicked)
        /\ engine = {n_engines}
        /\ clicked <=> pc = "rerun"
        /\ pc = "rerun" => (queries = 0 /\ cache_resource = {})
        /\ pc # "rerun" => cache_resource = engine

C10_Witness ==
    /\ run = 3
    /\ prev_clicked
    /\ created
    /\ engine = {2}
    /\ pc = "kpis"

-----------------------------------------------------------------------------
(***************************************************************************)
(* THE CONCENTRATION QUERY EXECUTED (SpecConc)                             *)
(***************************************************************************)
Thresholds == {1500, Pct20, 3000}

InitConc ==
    /\ InitRun
    /\ InitFmt
    /\ view = EmptyView
    /\ vops = << >>
    /\ dbq = [kind |-> "none"]
    /\ result = << >>
    /\ threshold \in Thresholds

\* Tab "Concentração Ced/Sac" (lines 298-335) against a snapshot of the view.
ConcQuery ==
    /\ dbq.kind = "none"
    /\ \E v \in [CedNames -> Ledgers], w \in ConcWidgets :
         LET q == [kind |-> "conc", w |-> w, sql |-> sql_conc(w),
                   params |-> params_conc(w)]
         IN  /\ view' = v
             /\ dbq' = q
             /\ result' = exec_conc(ViewRows(v), q)
    /\ UNCHANGED << runVars, fmtVars, vops, threshold >>

NextConc == ConcQuery

SpecConc == InitConc /\ [][NextConc]_vars

\* r1 may stand before r2 in the order "violations first": flag
\* descending, then share descending, then amount descending.
NotAfter(r1, r2) ==
    /\ r2.flag => r1.flag
    /\ (r1.flag = r2.flag) => r1.pct >= r2.pct
    /\ (r1.flag = r2.flag /\ r1.pct = r2.pct) => r1.vlr >= r2.vlr

Returned == UNION {result[i].rows : i \in DOMAIN result}

\* Rows that pass the WHERE clauses and of which at least one copy was cut
\* off by the LIMIT.
Omitted ==
    {r \in Where(ViewRows(view), dbq) :
        \A i \in DOMAIN result : r \in result[i].rows => result[i].taken < result[i].size}

\* C8: the rows of the concentration query come back with violations
\* first: a row never follows one that has a lower flag, or the same flag
\* and a smaller share, or the same flag and share and a smaller amount
\* (rows the database may return in either order agree on all three); Top N
\* cuts after the ordering: the rows returned are the first min(N, total)
\* and no omitted row sorts before a returned one.
C8_ViolationsFirst ==
    dbq.kind = "conc" =>
        /\ \A i \in DOMAIN result, j \in DOMAIN result :
             i <= j => \A r1 \in result[i].rows, r2 \in result[j].rows : NotAfter(r1, r2)
        /\ \A o \in Omitted, r \in Returned : NotAfter(r, o)
        /\ \A i \in DOMAIN result : i < Len(result) => result[i].taken = result[i].size
        /\ SizeUpTo(result, Len(result)) - (IF result = << >> THEN 0
              ELSE result[Len(result)].size - result[Len(result)].taken)
           = Min(dbq.params.top_n, SumN(Where(ViewRows(view), dbq)))

\* Two flagged debtors with different shares, unflagged ones after them,
\* and a Top N that cuts inside the last group returned.
C8_Witness ==
    /\ dbq.kind = "conc"
    /\ Len(result) >= 3
    /\ \E r \in result[1].rows : r.flag /\ r.pct = 8000
    /\ \E r \in result[2].rows : r.flag /\ r.pct = Pct20
    /\ \E r \in result[Len(result)].rows : ~r.flag
    /\ result[Len(result)].taken < result[Len(result)].size
    /\ Omitted # {}

\* C4: a debtor row is flagged if and only if its share of the creditor's
\* total is at or above the configured threshold, and "Somente alertas"
\* keeps exactly the rows whose share is at or above that threshold.
C4_ConfiguredThreshold ==
    dbq.kind = "conc" =>
        /\ \A r \in ViewRows(view) : r.flag <=> r.pct >= threshold
        /\ dbq.w.somente_alertas =>
             Where(ViewRows(view), dbq)
               = {r \in Where(ViewRows(view), [dbq EXCEPT !.sql.where =
                                  SelectSeq(@, LAMBDA c : c # "flag_ultrapassa_20 = true")]) :
                     r.pct >= threshold}

-----------------------------------------------------------------------------
(***************************************************************************)
(* THE RANKING QUERY EXECUTED (SpecRank)                                   *)
(***************************************************************************)
VopsRows == [cedente : {"A", "B", "NULL"}, situacao_operacao : {"4", "nan"},
             vlr_aprovado : {100, 200}]

VopsTables == UNION {[1..n -> VopsRows] : n \in 0..MaxVops}

\* Tab "Visão Geral", "VOP por Cedente (Top 20)" (lines 224-236) against a
\* snapshot of public.vops.
RankQuery ==
    /\ dbq.kind = "none"
    /\ \E t \in VopsTables :
         LET q == [kind |-> "rank", sql |-> sql_vop_ced, params |-> NoParams]
         IN  /\ vops' = t
             /\ dbq' = q
             /\ result' \in exec_vop_ced(t, q)
    /\ UNCHANGED << runVars, fmtVars, view, threshold >>

NextRank == RankQuery

SpecRank == Init /\ [][NextRank]_vars

CedOrder(c) == CASE c = "A" -> 1 [] c = "B" -> 2 [] c = "N/I" -> 3

\* C9: the ranking is by total descending and deterministic on ties: two
\* creditors with equal totals come back ordered by creditor id ascending.
C9_TieBreakById ==
    dbq.kind = "rank" =>
        \A i \in DOMAIN result, j \in DOMAIN result :
            i < j =>
              /\ result[i].vlr_aprovado >= result[j].vlr_aprovado
              /\ result[i].vlr_aprovado = result[j].vlr_aprovado
                   => CedOrder(result[i].cedente) < CedOrder(result[j].cedente)

-----------------------------------------------------------------------------
(***************************************************************************)
(* THE FORMATTERS APPLIED (SpecFmt)                                        *)
(***************************************************************************)
ApplyFmtMoney ==
    /\ fname = Idle
    /\ \E v \in MoneyInputs :
         /\ fin' = v
         /\ fout' = fmt_money(v)
    /\ fname' = "fmt_money"
    /\ UNCHANGED << runVars, dbVars >>

ApplyFmtMoneyCell ==
    /\ fname = Idle
    /\ \E v \in MoneyInputs :
         /\ fin' = v
         /\ fout' = fmt_money_cell(v)
    /\ fname' = "fmt_money_cell"
    /\ UNCHANGED << runVars, dbVars >>

ApplyFmtPctCell ==
    /\ fname = Idle
    /\ \E v \in PctInputs :
         /\ fin' = v
         /\ fout' = fmt_pct_cell(v)
    /\ fname' = "fmt_pct_cell"
    /\ UNCHANGED << runVars, dbVars >>

ApplyFmtDt ==
    /\ fname = Idle
    /\ \E v \in DtInputs :
         /\ fin' = v
         /\ fout' = fmt_dt(v)
    /\ fname' = "fmt_dt"
    /\ UNCHANGED << runVars, dbVars >>

NextFmt == ApplyFmtMoney \/ ApplyFmtMoneyCell \/ ApplyFmtPctCell \/ ApplyFmtDt

SpecFmt == Init /\ [][NextFmt]_vars
-----------------------------------------------------------------------------
(***************************************************************************)
(* Properties of the formatters.                                           *)
(***************************************************************************)
DigitChars == {"0", "1", "2", "3", "4", "5", "6", "7", "8", "9"}

DigitVal(ch) == CHOOSE d \in 0..9 : Digit(d) = ch

\* Value of the digits of s, skipping every other character.
RECURSIVE DigitsValue(_)
DigitsValue(s) ==
    IF s = << >> THEN 0
    ELSE LET front == SubSeq(s, 1, Len(s) - 1)
             last  == s[Len(s)]
         IN  IF last \in DigitChars THEN 10 * DigitsValue(front) + DigitVal(last)
             ELSE DigitsValue(front)

\* out is "R$ " + integer part grouped by "." + "," + two decimals, and
\* reads back as the amount c (in cents).
IsBRL(out, c) ==
    /\ Len(out) >= 7
    /\ SubSeq(out, 1, 3) = BRL
    /\ LET body == SubSeq(out, 4, Len(out))
           L    == Len(body)
           ip   == SubSeq(body, 1, L - 3)
       IN  /\ body[L - 2] = ","
           /\ body[L - 1] = Digit((c % 100) \div 10)
           /\ body[L] = Digit(c % 10)
           /\ \A i \in 1..Len(ip) :
                IF (Len(ip) - i + 1) % 4 = 0 THEN ip[i] = "."
                ELSE ip[i] \in DigitChars
           /\ ip[1] \in DigitChars
           /\ (ip[1] = "0" => Len(ip) = 1)
           /\ DigitsValue(ip) = c \div 100

\* C7: for every non-negative amount in whole cents, fmt_money (and
\* fmt_money_cell, which delegates to it) returns "R$ " followed by the
\* integer part with "." between every group of three digits, then ","
\* and exactly two decimals; no "," grouping separator, no "." decimal
\* separator and no "X" placeholder survives.
C7_MoneyFormat ==
    (fname \in {"fmt_money", "fmt_money_cell"} /\ fin.k = "num" /\ fin.cents >= 0)
        => IsBRL(fout, fin.cents)

C7_Witness ==
    /\ fname = "fmt_money"
    /\ fin = Num(123456750)
    /\ fout = << "R", "$", " ", "1", ".", "2", "3", "4", ".", "5", "6", "7",
                 ",", "5", "0" >>

RawNull(s) == \/ HasText(s, << "n", "a", "n" >>)
              \/ HasText(s, << "N", "o", "n", "e" >>)

\* C6: every formatter maps every missing input (None or NaN) to the empty
\* string or to the "not available" marker, and never to text that holds a
\* raw null representation ("nan", "None").  Stated here by its second
\* half, which the first implies: the output for a missing input holds no
\* raw null representation.
C6_MissingNormalised ==
    (fname # Idle /\ isna(fin)) => ~RawNull(fout)

=============================================================================
